---- MODULE Spec2Model ----
(***************************************************************************)
(* Model of the bash command server: the Safety Gate (is_command_safe) and *)
(* the Execution Runner (execute_bash_command) of                          *)
(* servers/bash-command-server/src/bash_command_server.py.                 *)
(*                                                                         *)
(* A Python str is modelled as a sequence of one-character strings, so     *)
(* that length, lower-casing, tokenization and substring search are        *)
(* computed rather than assumed.  One invocation is followed from the call *)
(* to its return, its exception or its cancellation.                       *)
(***************************************************************************)
EXTENDS Integers, Sequences, FiniteSets, TLC

(***************************************************************************)
(* Security configuration (bash_command_server.py lines 23-35).            *)
(***************************************************************************)
\* The backquote character (the lexer of TLA+ strings does not accept it).
Backtick == "BACKQUOTE"

MAX_COMMAND_LENGTH == 1000

TIMEOUT_SECONDS == 30

BLOCKED_COMMANDS ==
    { <<"r","m">>, <<"r","m","d","i","r">>, <<"d","e","l">>,
      <<"f","o","r","m","a","t">>, <<"f","d","i","s","k">>, <<"m","k","f","s">>,
      <<"d","d">>, <<"s","h","u","t","d","o","w","n">>, <<"r","e","b","o","o","t">>,
      <<"h","a","l","t">>, <<"p","o","w","e","r","o","f","f">>,
      <<"s","u","d","o">>, <<"s","u">>, <<"p","a","s","s","w","d">>,
      <<"c","h","o","w","n">>, <<"c","h","m","o","d">>,
      <<"c","r","o","n","t","a","b">>, <<"a","t">>, <<"b","a","t","c","h">>,
      <<"s","y","s","t","e","m","c","t","l">>, <<"s","e","r","v","i","c","e">> }

BLOCKED_PATTERNS ==
    << <<"&","&">>, <<"|","|">>, <<";">>, <<"|">>, <<">">>, <<">",">">>, <<"<">>,
       <<Backtick>>, <<"$","(">>, <<"e","v","a","l">>, <<"e","x","e","c">>,
       <<"s","o","u","r","c","e">>, <<".">>, <<"w","g","e","t">>,
       <<"c","u","r","l"," ","-","X">> >>

\* BLOCKED_PATTERNS is a module-level list object: blocked_patterns is what
\* that object holds now, BLOCKED_PATTERNS what it is created with.
VARIABLE blocked_patterns

\* The list of line 58: '$(', backtick, '{', '}'.
SUSPICIOUS_CHARS == << <<"$","(">>, <<Backtick>>, <<"{">>, <<"}">> >>

(***************************************************************************)
(* Bounds of the checked input space.                                      *)
(***************************************************************************)
\* Longest command body enumerated character by character.
MaxLen == 4

\* Longest body of a command padded up to the length limit.
PadBodyLen == 2

\* Largest exit code / signal number a process terminates with.
MaxStatus == 2

\* Characters the enumerated command bodies are written in.
Alphabet == {"d", "D", " ", "'", "\\", ";", "{"}

\* A letter used to pad a body up to the length limit.
PadChar == "x"

(***************************************************************************)
(* str helpers.                                                            *)
(***************************************************************************)
UpperCase == <<"A","B","C","D","E","F","G","H","I","J","K","L","M",
               "N","O","P","Q","R","S","T","U","V","W","X","Y","Z">>

LowerCase == <<"a","b","c","d","e","f","g","h","i","j","k","l","m",
               "n","o","p","q","r","s","t","u","v","w","x","y","z">>

\* str.lower() on one character.
LowerChar(c) ==
    IF \E k \in 1..Len(UpperCase) : UpperCase[k] = c
    THEN LowerCase[CHOOSE k \in 1..Len(UpperCase) : UpperCase[k] = c]
    ELSE c

\* command.lower()
Lower(s) == [i \in 1..Len(s) |-> LowerChar(s[i])]

\* A match on any single character of the pattern.
Contains_AnyChar(pattern, s) ==
    \E k \in 1..Len(pattern), i \in 1..Len(s) : s[i] = pattern[k]

\* pattern in command: pattern occurs as a contiguous substring.
Contains(pattern, s) ==
    \E i \in 0..(Len(s) - Len(pattern)) :
        \A k \in 1..Len(pattern) : s[i + k] = pattern[k]

(***************************************************************************)
(* shlex.split(s): POSIX mode, whitespace_split, no comment characters.    *)
(* The result is [raised |-> FALSE, parts |-> tokens] or, when the input   *)
(* ends inside a quotation or after an escape character, the ValueError    *)
(* that shlex raises: [raised |-> TRUE, parts |-> <<>>].                   *)
(***************************************************************************)
Whitespace == {" ", "\t", "\r", "\n"}

Quotes == {"'", "\""}

Escape == {"\\"}

EscapedQuotes == {"\""}

\* Characters the lexer treats specially in some state.
LexSpecial == Whitespace \cup Quotes \cup Escape

\* First position >= i holding a special character, Len(s)+1 if none.
NextSpecial(s, i) ==
    LET S == {k \in i..Len(s) : s[k] \in LexSpecial}
    IN  IF S = {} THEN Len(s) + 1
        ELSE CHOOSE k \in S : \A m \in S : k <= m

ShlexError == [raised |-> TRUE, parts |-> <<>>]

\* The lexer loop.  st is shlex's state (" " between tokens, "a" inside a
\* word, a quote character inside a quotation, "\\" after an escape), esc
\* its escapedstate, quoted and tok the token being read, toks the tokens
\* read so far.  A run of ordinary characters inside a word or a quotation
\* is appended in one step: each of them only extends the token.
RECURSIVE Lex(_, _, _, _, _, _, _)
Lex(s, i, st, esc, quoted, tok, toks) ==
    IF i > Len(s) THEN
        IF st = " " THEN [raised |-> FALSE, parts |-> toks]
        ELSE IF st = "a" THEN
            [raised |-> FALSE,
             parts |-> IF tok # <<>> \/ quoted THEN Append(toks, tok) ELSE toks]
        ELSE ShlexError
    ELSE
    LET c == s[i] IN
    IF st = " " THEN
        IF c \in Whitespace THEN Lex(s, i + 1, " ", esc, quoted, tok, toks)
        ELSE IF c \in Escape THEN Lex(s, i + 1, c, "a", quoted, tok, toks)
        ELSE IF c \in Quotes THEN Lex(s, i + 1, c, esc, quoted, tok, toks)
        ELSE Lex(s, i + 1, "a", esc, quoted, <<c>>, toks)
    ELSE IF st \in Quotes THEN
        IF c = st THEN Lex(s, i + 1, "a", esc, TRUE, tok, toks)
        ELSE IF c \in Escape /\ st \in EscapedQuotes
             THEN Lex(s, i + 1, c, st, TRUE, tok, toks)
        ELSE IF c \in LexSpecial
             THEN Lex(s, i + 1, st, esc, TRUE, Append(tok, c), toks)
        ELSE LET j == NextSpecial(s, i)
             IN  Lex(s, j, st, esc, TRUE, tok \o SubSeq(s, i, j - 1), toks)
    ELSE IF st \in Escape THEN
        LET kept == IF esc \in Quotes /\ c # st /\ c # esc
                    THEN Append(tok, st) ELSE tok
        IN  Lex(s, i + 1, esc, esc, quoted, Append(kept, c), toks)
    ELSE \* st = "a"
        IF c \in Whitespace THEN
            IF tok # <<>> \/ quoted
            THEN Lex(s, i + 1, " ", " ", FALSE, <<>>, Append(toks, tok))
            ELSE Lex(s, i + 1, " ", esc, quoted, tok, toks)
        ELSE IF c \in Quotes THEN Lex(s, i + 1, c, esc, quoted, tok, toks)
        ELSE IF c \in Escape THEN Lex(s, i + 1, c, "a", quoted, tok, toks)
        ELSE LET j == NextSpecial(s, i)
             IN  Lex(s, j, "a", esc, quoted, tok \o SubSeq(s, i, j - 1), toks)

shlex_split(s) == Lex(s, 1, " ", " ", FALSE, <<>>, <<>>)

(***************************************************************************)
(* is_command_safe (lines 37-61).  The value is what the call produces:    *)
(* raised = TRUE when shlex.split raises (nothing is returned), otherwise  *)
(* the returned pair (is_safe, reason).  checks lists the checks the call  *)
(* evaluated, in evaluation order.                                         *)
(***************************************************************************)
\* Index of the first pattern of the list that occurs in the command, 0 if none.
FirstPattern(command) ==
    LET M == {k \in 1..Len(blocked_patterns) : Contains(blocked_patterns[k], command)}
    IN  IF M = {} THEN 0 ELSE CHOOSE k \in M : \A m \in M : k <= m

HasSuspiciousChar(command) ==
    \E k \in 1..Len(SUSPICIOUS_CHARS) : Contains(SUSPICIOUS_CHARS[k], command)

GateReturn(safe, reason, checks) ==
    [raised |-> FALSE, is_safe |-> safe, reason |-> reason, checks |-> checks]

GateRaise(checks) ==
    [raised |-> TRUE, is_safe |-> FALSE, reason |-> <<"ValueError">>, checks |-> checks]

\* is_command_safe with the pattern check moved before the leading-token check.
is_command_safe_PatternFirst(command) ==
    IF Len(command) > MAX_COMMAND_LENGTH
    THEN GateReturn(FALSE, <<"Command too long (max ", MAX_COMMAND_LENGTH, " characters)">>,
                    <<"length">>)
    ELSE IF FirstPattern(command) # 0
    THEN GateReturn(FALSE,
                    <<"Blocked pattern detected: ", blocked_patterns[FirstPattern(command)]>>,
                    <<"length", "pattern">>)
    ELSE
    LET split == shlex_split(Lower(command)) IN
    IF split.raised THEN GateRaise(<<"length", "pattern", "token">>)
    ELSE IF split.parts # <<>> /\ split.parts[1] \in BLOCKED_COMMANDS
    THEN GateReturn(FALSE, <<"Blocked command: ", split.parts[1]>>,
                    <<"length", "pattern", "token">>)
    ELSE IF HasSuspiciousChar(command)
    THEN GateReturn(FALSE, <<"Command contains potentially dangerous characters">>,
                    <<"length", "pattern", "token", "chars">>)
    ELSE GateReturn(TRUE, <<>>, <<"length", "pattern", "token", "chars">>)

is_command_safe(command) ==
    IF Len(command) > MAX_COMMAND_LENGTH
    THEN GateReturn(FALSE, <<"Command too long (max ", MAX_COMMAND_LENGTH, " characters)">>,
                    <<"length">>)
    ELSE
    LET split == shlex_split(Lower(command)) IN
    IF split.raised THEN GateRaise(<<"length", "token">>)
    ELSE IF split.parts # <<>> /\ split.parts[1] \in BLOCKED_COMMANDS
    THEN GateReturn(FALSE, <<"Blocked command: ", split.parts[1]>>, <<"length", "token">>)
    ELSE IF FirstPattern(command) # 0
    THEN GateReturn(FALSE,
                    <<"Blocked pattern detected: ", blocked_patterns[FirstPattern(command)]>>,
                    <<"length", "token", "pattern">>)
    ELSE IF HasSuspiciousChar(command)
    THEN GateReturn(FALSE, <<"Command contains potentially dangerous characters">>,
                    <<"length", "token", "pattern", "chars">>)
    ELSE GateReturn(TRUE, <<>>, <<"length", "token", "pattern", "chars">>)

(***************************************************************************)
(* Inputs.                                                                 *)
(***************************************************************************)
Bodies == UNION {[1..n -> Alphabet] : n \in 0..MaxLen}

\* Padding lengths that bring the longest padded bodies to the limit and
\* one character past it.
PadLens == {MAX_COMMAND_LENGTH - PadBodyLen, MAX_COMMAND_LENGTH + 1 - PadBodyLen}

\* A command is kept as its body and the number of padding letters that
\* follow it; Chars gives the characters of the string.
Pad(body, n) == [body |-> body, pad |-> n]

Chars(cmd) == cmd.body \o [i \in 1..cmd.pad |-> PadChar]

\* Commands of tests/test_server.py (lines 19-26, 45-52, 84) and two long
\* commands that start with a blocked command.
Samples ==
    { Pad(<<"p","w","d">>, 0),
      Pad(<<"l","s"," ","-","l","a">>, 0),
      Pad(<<"e","c","h","o"," ","'","H","e","l","l","o","!","'">>, 0),
      Pad(<<"r","m"," ","-","r","f"," ","/">>, 0),
      Pad(<<"s","u","d","o"," ","r","m"," ","t","e","s","t">>, 0),
      Pad(<<"s","h","u","t","d","o","w","n"," ","n","o","w">>, 0),
      Pad(<<"e","c","h","o"," ","'","t","e","s","t","'"," ","&","&"," ","r","m"," ","f","i","l","e">>, 0),
      Pad(<<"c","u","r","l"," ","-","X"," ","P","O","S","T"," ","m",".","c","o","m">>, 0),
      Pad(<<"$","(","m",")">>, 0),
      Pad(<<"s","l","e","e","p"," ","1"," ","&","&"," ","e","c","h","o"," ","o","k">>, 0),
      Pad(<<"|", ";", "{">>, 0),
      Pad(<<"d","d"," ">>, MAX_COMMAND_LENGTH - 3),
      Pad(<<"d","d"," ">>, MAX_COMMAND_LENGTH - 2) }

\* Lines 227-243: the list that list_safe_commands returns, a new list
\* object at every call.
list_safe_commands ==
    << <<"l","s"," ","-","l","a">>,
       <<"p","w","d">>,
       <<"w","h","o","a","m","i">>,
       <<"d","a","t","e">>,
       <<"e","c","h","o"," ","'","h","e","l","l","o"," ","w","o","r","l","d","'">>,
       <<"c","a","t"," ","/","e","t","c","/","o","s","-","r","e","l","e","a","s","e">>,
       <<"p","s"," ","a","u","x">>,
       <<"d","f"," ","-","h">>,
       <<"f","r","e","e"," ","-","h">>,
       <<"u","p","t","i","m","e">>,
       <<"w","h","i","c","h"," ","p","y","t","h","o","n">>,
       <<"p","y","t","h","o","n"," ","-","-","v","e","r","s","i","o","n">>,
       <<"u","v"," ","-","-","v","e","r","s","i","o","n">>,
       <<"g","i","t"," ","s","t","a","t","u","s">>,
       <<"g","i","t"," ","l","o","g"," ","-","-","o","n","e","l","i","n","e"," ","-","5">> >>

\* The strings of the list as commands a caller passes on.
Catalogue == {Pad(list_safe_commands[i], 0) : i \in DOMAIN list_safe_commands}

Commands ==
    {Pad(b, 0) : b \in Bodies}
        \cup {Pad(b, n) : b \in {x \in Bodies : Len(x) <= PadBodyLen}, n \in PadLens}
        \cup Samples
        \cup Catalogue

\* Optional[str]: None is a value distinct from every path string.
None == "<None>"

\* Paths a caller passes as working_dir, and what the file system holds there.
\* The empty string names no file (stat and chdir fail with ENOENT).
FsKind == [p \in {"", ".", "/tmp", "/etc/hostname", "/path/does/not/exist"} |->
             CASE p = "." -> "dir"
               [] p = "/tmp" -> "dir"
               [] p = "/etc/hostname" -> "file"
               [] OTHER -> "missing"]

WorkingDirs == {None, "", "/tmp", "/etc/hostname", "/path/does/not/exist"}

\* os.getcwd()
Cwd == "/srv/app"

\* Bytes a process writes to a pipe; BadByte is not valid UTF-8.
BadByte == "0xFF"

Replacement == "U+FFFD"

Outputs == { <<>>, <<"h", "i", "\n">>, <<" ", BadByte, " ">> }

\* Exceptions create_subprocess_shell raises.
SpawnErrors == {"[Errno 2] No such file or directory", "[Errno 11] Resource temporarily unavailable"}

\* How a process terminates: exit(n) or death by signal n.
SIGKILL == 9

Statuses == [kind : {"exit"}, n : 0..MaxStatus] \cup [kind : {"signal"}, n : 1..MaxStatus]

NoStatus == [kind |-> "none", n |-> 0]

(***************************************************************************)
(* Pieces of execute_bash_command (lines 63-182).                          *)
(***************************************************************************)
\* if working_dir: (None and "" are falsy)
Truthy(wd) == wd # None /\ wd # ""

\* working_dir or os.getcwd()
OrCwd(wd) == IF Truthy(wd) THEN wd ELSE Cwd

\* Path(working_dir); Path("") is Path(".")
PathOf(wd) == IF wd = "" THEN "." ELSE wd

\* working_path.exists()
PathExists(wd) == FsKind[PathOf(wd)] # "missing"

\* working_path.is_dir()
PathIsDir(wd) == FsKind[PathOf(wd)] = "dir"

\* The child's chdir(cwd) before exec; cwd=None keeps the parent's directory.
ChdirOk(wd) == IF wd = None THEN TRUE ELSE FsKind[wd] = "dir"

\* The failure dictionaries of lines 77-85, 91-109, 142-150, 174-182.
Failure(error, cmd, wd) ==
    [success |-> FALSE, error |-> error, stdout |-> <<>>, stderr |-> <<>>,
     return_code |-> -1, command |-> cmd, working_dir |-> wd]

BlockedResult(cmd, wd, reason) ==
    Failure(<<"Command blocked for security: ", reason>>, cmd, OrCwd(wd))

MissingDirResult(cmd, wd) ==
    Failure(<<"Working directory does not exist: ", wd>>, cmd, wd)

NotADirResult(cmd, wd) ==
    Failure(<<"Working directory path is not a directory: ", wd>>, cmd, wd)

TimeoutResult(cmd, wd) ==
    Failure(<<"Command timed out after ", TIMEOUT_SECONDS, " seconds">>, cmd, OrCwd(wd))

ExceptionResult(cmd, wd, e) ==
    Failure(<<"Execution error: ", e>>, cmd, OrCwd(wd))

\* process.returncode: the exit code, or minus the signal number.
ReturnCode(st) == IF st.kind = "exit" THEN st.n ELSE 0 - st.n

\* bytes.decode('utf-8', errors='replace')
Decode(bytes) == [i \in 1..Len(bytes) |-> IF bytes[i] = BadByte THEN Replacement ELSE bytes[i]]

StripChars == {" ", "\t", "\n", "\r"}

\* A strip that trims the left end only.
Strip_LeftOnly(s) ==
    LET K == {k \in 1..Len(s) : s[k] \notin StripChars}
    IN  IF K = {} THEN <<>>
        ELSE SubSeq(s, CHOOSE k \in K : \A m \in K : k <= m, Len(s))

\* str.strip()
Strip(s) ==
    LET K == {k \in 1..Len(s) : s[k] \notin StripChars}
    IN  IF K = {} THEN <<>>
        ELSE SubSeq(s, CHOOSE k \in K : \A m \in K : k <= m,
                       CHOOSE k \in K : \A m \in K : k >= m)

\* CompletedResult that sets the error key whatever the return code is.
CompletedResult_AlwaysError(cmd, wd, rc, out, err) ==
    [success |-> (rc = 0), stdout |-> Strip(Decode(out)),
     stderr |-> Strip(Decode(err)), return_code |-> rc,
     command |-> cmd, working_dir |-> OrCwd(wd),
     error |-> <<"Command failed with return code ", rc>>]

\* Lines 152-170: the result of a process whose exit status was collected.
CompletedResult(cmd, wd, rc, out, err) ==
    LET base == [success |-> (rc = 0), stdout |-> Strip(Decode(out)),
                 stderr |-> Strip(Decode(err)), return_code |-> rc,
                 command |-> cmd, working_dir |-> OrCwd(wd)]
    IN  IF rc = 0 THEN base
        ELSE [k \in DOMAIN base \cup {"error"} |->
                 IF k = "error" THEN <<"Command failed with return code ", rc>> ELSE base[k]]

(***************************************************************************)
(* State of one invocation of execute_bash_command and of the process it   *)
(* spawns.                                                                 *)
(*   pc      where the coroutine stands                                    *)
(*   gate    what is_command_safe produced                                 *)
(*   trace   the steps taken so far, in order                              *)
(*   proc    "none", "running", "zombie" (terminated, not yet waited for), *)
(*           "reaped" (exit status collected by the event loop)            *)
(*   status  how the process terminated                                    *)
(*   captured  the bytes communicate() read from stdout and stderr         *)
(*   result  the dictionary returned (meaningful when pc = "done")         *)
(***************************************************************************)
VARIABLES pc, command, working_dir, gate, trace, proc, status, captured, result

\* What the tools list_safe_commands and get_security_info have returned to
\* the caller, in call order.
VARIABLE returned

vars == <<pc, command, working_dir, gate, trace, proc, status, captured, result,
          blocked_patterns, returned>>

\* The state outside one invocation of execute_bash_command.
server == <<blocked_patterns, returned>>

NotEvaluated == [raised |-> FALSE, is_safe |-> FALSE, reason |-> <<>>, checks |-> <<>>]

NoResult == [success |-> FALSE]

Init ==
    /\ pc = "idle"
    /\ command = Pad(<<>>, 0)
    /\ working_dir = None
    /\ gate = NotEvaluated
    /\ trace = <<>>
    /\ proc = "none"
    /\ status = NoStatus
    /\ captured = <<<<>>, <<>>>>
    /\ result = NoResult
    /\ blocked_patterns = BLOCKED_PATTERNS
    /\ returned = <<>>

\* A caller invokes execute_bash_command(cmd, wd).
Call ==
    /\ pc = "idle"
    /\ \E cmd \in Commands, wd \in WorkingDirs :
          /\ command' = cmd
          /\ working_dir' = wd
    /\ pc' = "gate"
    /\ UNCHANGED <<gate, trace, proc, status, result, captured, server>>

\* CheckSafety that goes on to the working directory whatever the Gate says.
CheckSafety_IgnoresVerdict ==
    /\ pc = "gate"
    /\ gate' = is_command_safe(Chars(command))
    /\ pc' = "validate"
    /\ trace' = Append(trace, IF gate'.is_safe THEN "gate_allowed" ELSE "gate_rejected")
    /\ UNCHANGED <<command, working_dir, proc, status, result, captured, server>>

\* Lines 75-85: the Safety Gate.  A ValueError raised by shlex.split is not
\* caught (the call is outside the try block) and leaves the coroutine.
CheckSafety ==
    /\ pc = "gate"
    /\ gate' = is_command_safe(Chars(command))
    /\ IF gate'.raised
       THEN /\ pc' = "raised"
            /\ trace' = Append(trace, "gate_raised")
            /\ UNCHANGED result
       ELSE IF ~gate'.is_safe
       THEN /\ pc' = "done"
            /\ trace' = Append(trace, "gate_rejected")
            /\ result' = BlockedResult(command, working_dir, gate'.reason)
       ELSE /\ pc' = "validate"
            /\ trace' = Append(trace, "gate_allowed")
            /\ UNCHANGED result
    /\ UNCHANGED <<command, working_dir, proc, status, captured, server>>

\* Lines 88-109: working directory validation.
ValidateDir ==
    /\ pc = "validate"
    /\ IF Truthy(working_dir) /\ ~PathExists(working_dir)
       THEN /\ pc' = "done"
            /\ trace' = Append(trace, "dir_invalid")
            /\ result' = MissingDirResult(command, working_dir)
       ELSE IF Truthy(working_dir) /\ ~PathIsDir(working_dir)
       THEN /\ pc' = "done"
            /\ trace' = Append(trace, "dir_invalid")
            /\ result' = NotADirResult(command, working_dir)
       ELSE /\ pc' = "spawn"
            /\ trace' = Append(trace, "dir_ok")
            /\ UNCHANGED result
    /\ UNCHANGED <<command, working_dir, gate, proc, status, captured, server>>

\* Lines 117-129: create_subprocess_shell starts the shell.
SpawnOk ==
    /\ pc = "spawn"
    /\ ChdirOk(working_dir)
    /\ pc' = "wait"
    /\ proc' = "running"
    /\ trace' = Append(trace, "spawn")
    /\ UNCHANGED <<command, working_dir, gate, status, result, captured, server>>

\* Lines 117-129 and 172-182: create_subprocess_shell raises; no process
\* is left behind and the handler of Exception builds the result.
SpawnFail(e) ==
    /\ pc = "spawn"
    /\ pc' = "done"
    /\ trace' = Append(trace, "spawn_error")
    /\ result' = ExceptionResult(command, working_dir, e)
    /\ UNCHANGED <<command, working_dir, gate, proc, status, captured, server>>

\* The process terminates by itself or by a signal from outside.
ProcExit(st) ==
    /\ proc = "running"
    /\ proc' = "zombie"
    /\ status' = st
    /\ UNCHANGED <<pc, command, working_dir, gate, trace, result, captured, server>>

\* The event loop's child watcher waits for the terminated process.
Reap ==
    /\ proc = "zombie"
    /\ proc' = "reaped"
    /\ UNCHANGED <<pc, command, working_dir, gate, trace, status, result, captured, server>>

\* Lines 133-137 and 152-170: communicate() returns before the deadline.
Complete(out, err) ==
    /\ pc = "wait"
    /\ proc = "reaped"
    /\ pc' = "done"
    /\ trace' = Append(trace, "completed")
    /\ captured' = <<out, err>>
    /\ result' = CompletedResult(command, working_dir, ReturnCode(status), out, err)
    /\ UNCHANGED <<command, working_dir, gate, proc, status, server>>

\* Lines 138-141: wait_for raises TimeoutError; process.kill() sends SIGKILL
\* (nothing is sent to a process that has already terminated) and the
\* coroutine suspends in process.wait().
Deadline ==
    /\ pc = "wait"
    /\ pc' = "killing"
    /\ trace' = Append(trace, "timeout")
    /\ IF proc = "running"
       THEN proc' = "zombie" /\ status' = [kind |-> "signal", n |-> SIGKILL]
       ELSE UNCHANGED <<proc, status>>
    /\ UNCHANGED <<command, working_dir, gate, result, captured, server>>

\* TimedOut without the await of process.wait(): returns right after kill().
TimedOut_NoWait ==
    /\ pc = "killing"
    /\ pc' = "done"
    /\ result' = TimeoutResult(command, working_dir)
    /\ UNCHANGED <<command, working_dir, gate, trace, proc, status, captured, server>>

\* Lines 141-150: process.wait() returns once the process is reaped.
TimedOut ==
    /\ pc = "killing"
    /\ proc = "reaped"
    /\ pc' = "done"
    /\ result' = TimeoutResult(command, working_dir)
    /\ UNCHANGED <<command, working_dir, gate, trace, proc, status, captured, server>>

\* The caller cancels the task while it is suspended in wait_for or in
\* process.wait(): CancelledError is a BaseException, so neither
\* the handler of asyncio.TimeoutError nor that of Exception handles it.
Cancel ==
    /\ pc \in {"wait", "killing"}
    /\ pc' = "cancelled"
    /\ trace' = Append(trace, "cancelled")
    /\ UNCHANGED <<command, working_dir, gate, proc, status, result, captured, server>>

Next ==
    \/ Call
    \/ CheckSafety
    \/ ValidateDir
    \/ SpawnOk
    \/ \E e \in SpawnErrors : SpawnFail(e)
    \/ \E st \in Statuses : ProcExit(st)
    \/ Reap
    \/ \E out \in Outputs, err \in Outputs : Complete(out, err)
    \/ Deadline
    \/ TimedOut
    \/ Cancel

Spec == Init /\ [][Next]_vars

\* The number of list_safe_commands and get_security_info calls a behaviour
\* follows.
MaxCalls == 2

\* Lines 252-268: the dict get_security_info builds. blocked_commands is a
\* new sorted list of the set, which the set determines; blocked_patterns is
\* the module's list object itself, not a copy.
get_security_info ==
    [max_command_length |-> MAX_COMMAND_LENGTH,
     timeout_seconds |-> TIMEOUT_SECONDS,
     blocked_commands |-> BLOCKED_COMMANDS,
     blocked_patterns |-> blocked_patterns,
     environment_variables_available |-> <<"PATH", "HOME", "USER", "PWD">>,
     security_features |->
        <<"Command length validation", "Dangerous command blocking",
          "Pattern-based filtering", "Execution timeout", "Limited environment",
          "Working directory validation", "Safe character validation">>]

\* Lines 245-268: the tool get_security_info; the value is recorded as it is
\* at the return.
GetSecurityInfo ==
    /\ pc = "idle"
    /\ Len(returned) < MaxCalls
    /\ returned' = Append(returned, [tool |-> "get_security_info", value |-> get_security_info])
    /\ UNCHANGED <<pc, command, working_dir, gate, trace, proc, status, captured, result,
                   blocked_patterns>>

\* Lines 219-243: the tool list_safe_commands.
ListSafeCommands ==
    /\ pc = "idle"
    /\ Len(returned) < MaxCalls
    /\ returned' = Append(returned, [tool |-> "list_safe_commands", value |-> list_safe_commands])
    /\ UNCHANGED <<pc, command, working_dir, gate, trace, proc, status, captured, result,
                   blocked_patterns>>

\* A caller in the server's process empties, with list.clear(), the list it
\* received under "blocked_patterns" (line 257). That list is the module's
\* BLOCKED_PATTERNS object. The lists received under "blocked_commands" and
\* from list_safe_commands are the caller's own: changing them changes no
\* state of the server.
CallerClearsPatterns ==
    /\ pc = "idle"
    /\ \E i \in DOMAIN returned : returned[i].tool = "get_security_info"
    /\ blocked_patterns # <<>>
    /\ blocked_patterns' = <<>>
    /\ UNCHANGED <<pc, command, working_dir, gate, trace, proc, status, captured, result,
                   returned>>

\* The server with its three tools and a caller that keeps what they return.
PolicyNext ==
    \/ Next
    \/ GetSecurityInfo
    \/ ListSafeCommands
    \/ CallerClearsPatterns

PolicySpec == Init /\ [][PolicyNext]_vars

\* The Safety Gate alone: a call and the evaluation of is_command_safe.
GateNext == Call \/ CheckSafety

GateSpec == Init /\ [][GateNext]_vars

(***************************************************************************)
(* Vocabulary of the properties.                                           *)
(***************************************************************************)
Range(f) == {f[i] : i \in DOMAIN f}

\* The invocation has gone through the Safety Gate.
Gated == pc \notin {"idle", "gate"}

GateRejected == Gated /\ ~gate.raised /\ ~gate.is_safe

GateAllowed == Gated /\ ~gate.raised /\ gate.is_safe

\* The characters of the command under evaluation.
Cmd == Chars(command)

\* The command is longer than the limit.
TooLong == Len(Cmd) > MAX_COMMAND_LENGTH

\* Ends of a leading word: the end of the string or a position followed by
\* whitespace.
WordEnds(s) == {k \in 1..Len(s) : IF k = Len(s) THEN TRUE ELSE s[k + 1] \in Whitespace}

\* The command starts with a complete word that, lower-cased and unquoted,
\* is a blocked command; what follows that word is arbitrary.
LeadingTokenBlocked(s) ==
    \E k \in WordEnds(s) :
        LET r == shlex_split(SubSeq(Lower(s), 1, k))
        IN  ~r.raised /\ Len(r.parts) = 1 /\ r.parts[1] \in BLOCKED_COMMANDS

\* The command contains pattern number k of the list.
HasPattern(s, k) == Contains(BLOCKED_PATTERNS[k], s)

HasSomePattern(s) == \E k \in 1..Len(BLOCKED_PATTERNS) : HasPattern(s, k)

\* The quoting of the command is malformed: the tokenizer fails on it.
Malformed(s) == shlex_split(Lower(s)).raised

\* The structured failure every rejection carries.
IsFailure(r) == r.success = FALSE /\ r.return_code = -1

Returned == pc = "done"

(***************************************************************************)
(* C1: a subprocess is spawned only after the Safety Gate allowed the      *)
(* command and the working directory passed validation, in that order; if  *)
(* the Gate rejects or the working directory is invalid no subprocess is   *)
(* spawned and the result has success = false and return_code = -1.        *)
(***************************************************************************)
DirInvalid == working_dir # None /\ FsKind[working_dir] # "dir"

SpawnOnlyAfterGateAndDir ==
    /\ (proc # "none" \/ "spawn" \in Range(trace)) =>
          /\ GateAllowed
          /\ ~DirInvalid
          /\ Len(trace) >= 3
          /\ trace[1] = "gate_allowed" /\ trace[2] = "dir_ok" /\ trace[3] = "spawn"
    /\ (GateRejected \/ (Gated /\ DirInvalid)) =>
          /\ proc = "none"
          /\ "spawn" \notin Range(trace)
          /\ Returned => IsFailure(result)

SpawnedInOrder ==
    /\ proc = "running"
    /\ working_dir = "/tmp"
    /\ trace = <<"gate_allowed", "dir_ok", "spawn">>

(***************************************************************************)
(* C2: every command whose first token is a blocked command (compared      *)
(* case-insensitively) is rejected by the Gate whatever follows the first  *)
(* token, and execute_bash_command returns success = false, no spawn.      *)
(***************************************************************************)
BlockedLeadingTokenRejected ==
    (Gated /\ LeadingTokenBlocked(Cmd)) =>
        /\ GateRejected
        /\ Returned /\ result.success = FALSE
        /\ proc = "none"

(***************************************************************************)
(* C3: every command containing a blocked pattern anywhere in the raw      *)
(* string is rejected by the Gate, whatever the rest of the string is.     *)
(***************************************************************************)
PatternAlwaysRejected ==
    (Gated /\ HasSomePattern(Cmd)) => GateRejected

(***************************************************************************)
(* C4: tokenization failure fails closed: a command within the length      *)
(* limit whose quoting is malformed is rejected by the Gate, and the call   *)
(* returns success = false, return_code = -1 without spawning.             *)
(***************************************************************************)
TokenizationFailsClosed ==
    (Gated /\ ~TooLong /\ Malformed(Cmd)) =>
        /\ GateRejected
        /\ Returned /\ IsFailure(result)
        /\ proc = "none"

(***************************************************************************)
(* C5: the Gate applies its checks in the order length, leading token,     *)
(* pattern (in list order), dangerous character; the first failing check   *)
(* determines the reported reason; a command longer than the limit is      *)
(* rejected with the length reason before any tokenization.                *)
(***************************************************************************)
CheckOrder == <<"length", "token", "pattern", "chars">>

\* The checks, each on its own.
TripsToken(s) ==
    LET r == shlex_split(Lower(s))
    IN  ~r.raised /\ r.parts # <<>> /\ r.parts[1] \in BLOCKED_COMMANDS

TripsChars(s) == \E k \in 1..Len(SUSPICIOUS_CHARS) : Contains(SUSPICIOUS_CHARS[k], s)

\* The reason is that of the first pattern of the list the command contains.
IsFirstPatternReason(s, reason) ==
    \E k \in 1..Len(BLOCKED_PATTERNS) :
        /\ HasPattern(s, k)
        /\ \A m \in 1..(k - 1) : ~HasPattern(s, m)
        /\ reason = <<"Blocked pattern detected: ", BLOCKED_PATTERNS[k]>>

\* Number of checks of CheckOrder the Gate has evaluated.
Evaluated(n) == gate.checks = SubSeq(CheckOrder, 1, n)

TimeoutKillsAndReaps ==
    (Returned /\ "timeout" \in Range(trace)) =>
        /\ IsFailure(result)
        /\ result.error = <<"Command timed out after ", TIMEOUT_SECONDS, " seconds">>
        /\ proc = "reaped"

KilledAtDeadline ==
    /\ Returned
    /\ "timeout" \in Range(trace)
    /\ status = [kind |-> "signal", n |-> SIGKILL]
    /\ proc = "reaped"

(***************************************************************************)
(* C7: return_code = -1 is reported only when the command never produced   *)
(* an exit status; a process whose exit status was collected, death by any *)
(* signal included, reports a return_code other than -1, and success =     *)
(* false with return_code >= 0 means the command ran and failed.           *)
(***************************************************************************)
SentinelMeansNoExitStatus ==
    Returned =>
        /\ "completed" \in Range(trace) => result.return_code # -1
        /\ (result.success = FALSE /\ result.return_code >= 0) => "completed" \in Range(trace)

(***************************************************************************)
(* C8: every returned result carries success, stdout, stderr, return_code, *)
(* command (the input command) and working_dir, and carries error exactly  *)
(* when success = false.                                                   *)
(***************************************************************************)
ResultKeys == {"success", "stdout", "stderr", "return_code", "command", "working_dir"}

ResultShape ==
    Returned =>
        /\ ResultKeys \subseteq DOMAIN result
        /\ DOMAIN result \subseteq ResultKeys \cup {"error"}
        /\ result.command = command
        /\ result.success \in BOOLEAN
        /\ ("error" \in DOMAIN result) <=> (result.success = FALSE)

FailedRunCarriesError ==
    /\ Returned
    /\ "completed" \in Range(trace)
    /\ result.success = FALSE
    /\ result.return_code = 2
    /\ "error" \in DOMAIN result

(***************************************************************************)
(* C9: for a gate-approved command, a given working directory that does    *)
(* not exist yields success = false, return_code = -1 with a "does not     *)
(* exist" reason; one that exists but is not a directory yields a "not a   *)
(* directory" reason; a given path is accepted only if it exists and is a  *)
(* directory; with no path given the call resolves to the current          *)
(* directory and is never rejected for the directory.                      *)
(***************************************************************************)
WorkingDirContract ==
    (GateAllowed /\ pc # "validate") =>
        /\ (working_dir # None /\ FsKind[working_dir] = "missing") =>
              /\ "dir_invalid" \in Range(trace)
              /\ Returned /\ IsFailure(result)
              /\ result.error = <<"Working directory does not exist: ", working_dir>>
        /\ (working_dir # None /\ FsKind[working_dir] = "file") =>
              /\ "dir_invalid" \in Range(trace)
              /\ Returned /\ IsFailure(result)
              /\ result.error = <<"Working directory path is not a directory: ", working_dir>>
        /\ (working_dir # None /\ "dir_ok" \in Range(trace)) => FsKind[working_dir] = "dir"
        /\ working_dir = None =>
              /\ "dir_ok" \in Range(trace)
              /\ Returned => result.working_dir = Cwd

(***************************************************************************)
(* C10: a cancellation that arrives while the Runner waits for the spawned *)
(* process takes the forced-termination path of a timeout: the process is  *)
(* killed and reaped, none is left running.                                *)
(***************************************************************************)
CancelStopsProcess ==
    pc = "cancelled" => proc \in {"zombie", "reaped"}

(***************************************************************************)
(* C11: when the process ends by itself before the deadline, the result    *)
(* has success = (return_code = 0), return_code is the status the process  *)
(* ended with, and stdout and stderr are the captured output without its   *)
(* leading and trailing whitespace; a process that exits 0 and writes      *)
(* nothing gives success = true, stdout = "", stderr = "", return_code = 0 *)
(* and no error.                                                           *)
(***************************************************************************)
CompletedNormally == Returned /\ "completed" \in Range(trace)

\* t is s without the whitespace at its two ends.
IsTrimOf(t, s) ==
    /\ t # <<>> => (t[1] \notin StripChars /\ t[Len(t)] \notin StripChars)
    /\ \E i \in 0..Len(s) :
          /\ i + Len(t) <= Len(s)
          /\ t = SubSeq(s, i + 1, i + Len(t))
          /\ \A k \in (1..i) \cup ((i + Len(t) + 1)..Len(s)) : s[k] \in StripChars

NormalCompletionResult ==
    CompletedNormally =>
        /\ result.success = (result.return_code = 0)
        /\ result.return_code = ReturnCode(status)
        /\ IsTrimOf(result.stdout, Decode(captured[1]))
        /\ IsTrimOf(result.stderr, Decode(captured[2]))
        /\ (status = [kind |-> "exit", n |-> 0] /\ captured = <<<<>>, <<>>>>) =>
              /\ result.success = TRUE
              /\ result.stdout = <<>>
              /\ result.stderr = <<>>
              /\ result.return_code = 0
              /\ "error" \notin DOMAIN result

SilentExitZero ==
    /\ CompletedNormally
    /\ status = [kind |-> "exit", n |-> 0]
    /\ captured = <<<<>>, <<>>>>
    /\ result.success = TRUE
    /\ result.stdout = <<>>

(***************************************************************************)
(* C12: every string of the list returned by list_safe_commands passes the *)
(* Safety Gate: is_command_safe answers Allowed for it.                    *)
(***************************************************************************)
CatalogueAllowed ==
    (Gated /\ command \in Catalogue) => GateAllowed /\ gate.reason = <<>>

CatalogueEntryAllowed ==
    /\ Gated
    /\ Cmd = list_safe_commands[Len(list_safe_commands)]
    /\ GateAllowed

(***************************************************************************)
(* C13: the security policy is the same in every reachable state: whatever *)
(* calls of the three tools are made and whatever the caller does with the *)
(* values they return, the pattern list stays the configured one and all   *)
(* get_security_info calls return the same value.                          *)
(***************************************************************************)
PolicyNeverChanges ==
    /\ blocked_patterns = BLOCKED_PATTERNS
    /\ \A i, j \in DOMAIN returned :
          (returned[i].tool = "get_security_info" /\ returned[j].tool = "get_security_info")
              => returned[i].value = returned[j].value
====
